---- MODULE Spec2Model ----
(***************************************************************************)
(* Model of the Lumos HTTP API (src/lumos/server/app.py): the API-key      *)
(* wrapper, the JSON-schema to pydantic-field compiler, and the handlers   *)
(* of /generate, /embed, /healthz, / and /book/parse-pdf.                  *)
(***************************************************************************)
EXTENDS Naturals, Sequences, FiniteSets, TLC

VARIABLES pc, req, model, formatted, call, resp, raised, log, files, tmp

vars == <<pc, req, model, formatted, call, resp, raised, log, files, tmp>>

(***************************************************************************)
(* Bounds of the model.                                                    *)
(***************************************************************************)
MaxProps == 2       \* properties per schema
MaxExamples == 2    \* few-shot examples per request
MaxFiles == 2       \* temp files the temp directory can hold

FieldNames == {"a", "b"}

(***************************************************************************)
(* Request headers: headers.get("X-API-Key") is None or a string, here a   *)
(* sequence of characters.                                                 *)
(***************************************************************************)
SECRET == <<"1", "2", "3", "4", "5", "6", "7", "8">>

NoHeader == [present |-> FALSE, value |-> <<>>]

Header(s) == [present |-> TRUE, value |-> s]

ApiKeys ==
    { NoHeader, Header(<<>>), Header(<<" ">>), Header(<<" ", " ", " ">>),
      Header(<<"x">>), Header(<<"1", "2", "3", "4", "5", "6", "7">>),
      Header(<<" ">> \o SECRET), Header(SECRET) }

Whitespace == {" ", "\t"}

RECURSIVE LStrip(_)
LStrip(s) ==
    IF s # <<>> /\ Head(s) \in Whitespace THEN LStrip(Tail(s)) ELSE s

RECURSIVE RStrip(_)
RStrip(s) ==
    IF s # <<>> /\ s[Len(s)] \in Whitespace
    THEN RStrip(SubSeq(s, 1, Len(s) - 1))
    ELSE s

\* str.strip()
Strip(s) == RStrip(LStrip(s))

\* The wrapper's three checks; 0 means the wrapped handler is awaited.
ApiKeyStatus(h) ==
    IF ~h.present \/ h.value = <<>> THEN 401
    ELSE IF Strip(h.value) = <<>> THEN 401
    ELSE IF h.value # SECRET THEN 401
    ELSE 0

ApiKeyDetail(h) ==
    IF ~h.present \/ h.value = <<>> THEN "API key is missing"
    ELSE "Invalid API key"

(***************************************************************************)
(* JSON values of example payloads: a structural shape and a literal.      *)
(***************************************************************************)
JsonValue(shape, lit) == [shape |-> shape, lit |-> lit]

JsonValues ==
    { JsonValue("string", "x"), JsonValue("string", "5"),
      JsonValue("integer", "5"), JsonValue("integer", "1"),
      JsonValue("number", "1.5"), JsonValue("boolean", "true"),
      JsonValue("array", "[]"), JsonValue("object", "{}"),
      JsonValue("null", "null") }

\* A JSON object: a function from some of the field names to values.
PayloadsOver(values) ==
    UNION { [S -> values] : S \in SUBSET FieldNames }

AllPayloads == PayloadsOver(JsonValues)

(***************************************************************************)
(* JSON schemas.  kind "null" is response_schema = None, "empty" is {},    *)
(* "dict" a non-empty dict whose "properties" and "required" are read with *)
(* .get and their defaults.  A property's type NoType stands for a         *)
(* property schema without a "type" key.                                   *)
(***************************************************************************)
NoType == "<no type key>"

TableTypes == {"string", "integer", "number", "boolean", "array", "object"}

TypeNames == TableTypes \cup {"null", NoType}

Prop(n, t) == [name |-> n, type |-> t]

PropSeqs(types) ==
    { ps \in UNION { [1..n -> [name : FieldNames, type : types]] : n \in 0..MaxProps } :
        \A i, j \in DOMAIN ps : ps[i].name = ps[j].name => i = j }

NullSchema == [kind |-> "null", properties |-> <<>>, required |-> {}]

EmptySchema == [kind |-> "empty", properties |-> <<>>, required |-> {}]

DictSchemas(types) ==
    [kind : {"dict"}, properties : PropSeqs(types), required : SUBSET FieldNames]

\* bool(response_schema)
SchemaTruthy(s) == s.kind = "dict"

(***************************************************************************)
(* _json_schema_to_pydantic_types                                          *)
(***************************************************************************)
type_mapping ==
    [t \in TableTypes |->
        CASE t = "string" -> "str"
          [] t = "integer" -> "int"
          [] t = "number" -> "float"
          [] t = "boolean" -> "bool"
          [] t = "array" -> "list"
          [] t = "object" -> "dict"]

NoFields == [n \in {} |-> [type |-> "str", required |-> FALSE]]

Raise(cls, msg) == [ok |-> FALSE, cls |-> cls, msg |-> msg]

\* A compiler that leaves out a property of unsupported type and goes on.
RECURSIVE CompileFromSkipping(_, _, _, _)
CompileFromSkipping(props, required, i, field_types) ==
    IF i > Len(props) THEN [ok |-> TRUE, fields |-> field_types]
    ELSE IF props[i].type \notin DOMAIN type_mapping
         THEN CompileFromSkipping(props, required, i + 1, field_types)
         ELSE CompileFromSkipping(props, required, i + 1,
                  [n \in (DOMAIN field_types) \cup {props[i].name} |->
                      IF n = props[i].name
                      THEN [type |-> type_mapping[props[i].type],
                            required |-> props[i].name \in required]
                      ELSE field_types[n]])

\* One pass of the for loop: field_types after the properties from index i on,
\* or the KeyError of the first property whose type is not a key of the table.
RECURSIVE CompileFrom(_, _, _, _)
CompileFrom(props, required, i, field_types) ==
    IF i > Len(props) THEN [ok |-> TRUE, fields |-> field_types]
    ELSE IF props[i].type \notin DOMAIN type_mapping
         THEN Raise("KeyError", IF props[i].type = NoType THEN "type" ELSE props[i].type)
         ELSE CompileFrom(props, required, i + 1,
                  [n \in (DOMAIN field_types) \cup {props[i].name} |->
                      IF n = props[i].name
                      THEN [type |-> type_mapping[props[i].type],
                            required |-> props[i].name \in required]
                      ELSE field_types[n]])

\* A compiler that reads no "required" list: every field gets default None.
json_schema_ignoring_required(schema) ==
    CompileFrom(schema.properties, {}, 1, NoFields)

\* properties = schema.get("properties", {}); required = schema.get("required", [])
json_schema_to_pydantic_types(schema) ==
    CompileFrom(schema.properties, schema.required, 1, NoFields)

(***************************************************************************)
(* ResponseModel.model_validate: pydantic's lax-mode conversion of one     *)
(* value to a field's Python type, then the whole payload.                 *)
(***************************************************************************)
IntLiterals == {"0", "1", "5"}

FloatLiterals == IntLiterals \cup {"1.5"}

BoolStrings == {"0", "1", "true", "false"}

Invalid == [ok |-> FALSE, value |-> JsonValue("null", "null")]

Converted(v) == [ok |-> TRUE, value |-> v]

\* Strict mode: a value is taken only in its own type, nothing is converted.
CoerceStrict(type, v) ==
    IF \/ type = "str" /\ v.shape = "string"
       \/ type = "int" /\ v.shape = "integer"
       \/ type = "float" /\ v.shape = "number"
       \/ type = "bool" /\ v.shape = "boolean"
       \/ type = "list" /\ v.shape = "array"
       \/ type = "dict" /\ v.shape = "object"
    THEN Converted(v)
    ELSE Invalid

Coerce(type, v) ==
    CASE type = "str" ->
            IF v.shape = "string" THEN Converted(v) ELSE Invalid
      [] type = "int" ->
            IF v.shape = "integer" THEN Converted(v)
            ELSE IF v.shape = "boolean"
                 THEN Converted(JsonValue("integer", IF v.lit = "true" THEN "1" ELSE "0"))
            ELSE IF v.shape = "string" /\ v.lit \in IntLiterals
                 THEN Converted(JsonValue("integer", v.lit))
            ELSE Invalid
      [] type = "float" ->
            IF v.shape \in {"number", "integer"} THEN Converted(JsonValue("number", v.lit))
            ELSE IF v.shape = "boolean"
                 THEN Converted(JsonValue("number", IF v.lit = "true" THEN "1" ELSE "0"))
            ELSE IF v.shape = "string" /\ v.lit \in FloatLiterals
                 THEN Converted(JsonValue("number", v.lit))
            ELSE Invalid
      [] type = "bool" ->
            IF v.shape = "boolean" THEN Converted(v)
            ELSE IF v.shape \in {"integer", "string"} /\ v.lit \in BoolStrings
                 THEN Converted(JsonValue("boolean",
                          IF v.lit \in {"1", "true"} THEN "true" ELSE "false"))
            ELSE Invalid
      [] type = "list" ->
            IF v.shape = "array" THEN Converted(v) ELSE Invalid
      [] type = "dict" ->
            IF v.shape = "object" THEN Converted(v) ELSE Invalid

\* A field of the created model, (python_type, default): default ... makes it
\* required, default None leaves it out of validation when absent.
FieldErrors(fields, payload) ==
    { n \in DOMAIN fields :
        IF n \in DOMAIN payload
        THEN ~Coerce(fields[n].type, payload[n]).ok
        ELSE fields[n].required }

model_validate(fields, payload) ==
    IF FieldErrors(fields, payload) # {}
    THEN Raise("ValidationError", "validation error for DynamicResponseModel")
    ELSE [ok |-> TRUE,
          instance |-> [n \in DOMAIN fields |->
              IF n \in DOMAIN payload
              THEN Coerce(fields[n].type, payload[n]).value
              ELSE JsonValue("null", "null")]]

(***************************************************************************)
(* Requests.  A body that fails the framework's validation of the declared *)
(* parameter types never becomes an AIRequest / EmbedRequest / PDFRequest. *)
(***************************************************************************)
Endpoints == {"generate", "embed", "healthz", "root", "parse_pdf"}

NoExamples == [isNone |-> TRUE, items |-> <<>>]

Examples(items) == [isNone |-> FALSE, items |-> items]

ExampleLists(payloads) ==
    {NoExamples} \cup
    { Examples(items) : items \in UNION { [1..n -> payloads] : n \in 0..MaxExamples } }

\* pdf_request: None, PDFRequest(url=None) or PDFRequest(url=...)
PdfRequests == {"None", "url_none", "url"}

Request(e, k, bodyOk, schema, examples, pdf_request, file) ==
    [endpoint |-> e, apiKey |-> k, bodyOk |-> bodyOk, schema |-> schema,
     examples |-> examples, pdf_request |-> pdf_request, file |-> file]

NoRequest == Request("root", NoHeader, TRUE, NullSchema, NoExamples, "None", FALSE)

NoModel == [isNone |-> TRUE, fields |-> NoFields]

NoFormatted == [isNone |-> TRUE, items |-> <<>>]

NoCall == [count |-> 0, response_format |-> NoModel, examples |-> NoFormatted]

NoResponse == [status |-> 0, prefix |-> "", msg |-> "", body |-> ""]

NoException == [escaped |-> FALSE, cls |-> "", msg |-> "", at |-> ""]

\* The exception e raised at a call site; escaped when no except clause of the
\* handler catches it.
Raised(e, at, escaped) == [escaped |-> escaped, cls |-> e.cls, msg |-> e.msg, at |-> at]

Response(status, prefix, msg, body) ==
    [status |-> status, prefix |-> prefix, msg |-> msg, body |-> body]

\* raise HTTPException(status_code=status, detail=prefix + msg)
HTTPException(status, prefix, msg) == Response(status, prefix, msg, "")

Idle ==
    /\ pc = "idle"
    /\ req = NoRequest
    /\ model = NoModel
    /\ formatted = NoFormatted
    /\ call = NoCall
    /\ resp = NoResponse
    /\ raised = NoException
    /\ log = <<>>
    /\ tmp = 0

Init ==
    /\ Idle
    /\ files = {}

(***************************************************************************)
(* A request arrives at one of the routes.                                 *)
(***************************************************************************)
ReceiveGenerate(keys, schemas, exampleLists) ==
    /\ pc = "idle"
    /\ \E k \in keys, bodyOk \in BOOLEAN :
         \E schema \in IF bodyOk THEN schemas ELSE {NullSchema},
            examples \in IF bodyOk THEN exampleLists ELSE {NoExamples} :
            req' = Request("generate", k, bodyOk, schema, examples, "None", FALSE)
    /\ pc' = "dispatch"
    /\ UNCHANGED <<model, formatted, call, resp, raised, log, files, tmp>>

ReceiveEmbed(keys) ==
    /\ pc = "idle"
    /\ \E k \in keys, bodyOk \in BOOLEAN :
         req' = Request("embed", k, bodyOk, NullSchema, NoExamples, "None", FALSE)
    /\ pc' = "dispatch"
    /\ UNCHANGED <<model, formatted, call, resp, raised, log, files, tmp>>

ReceivePlain(keys) ==
    /\ pc = "idle"
    /\ \E k \in keys, e \in {"healthz", "root"} :
         req' = Request(e, k, TRUE, NullSchema, NoExamples, "None", FALSE)
    /\ pc' = "dispatch"
    /\ UNCHANGED <<model, formatted, call, resp, raised, log, files, tmp>>

ReceivePdf(keys) ==
    /\ pc = "idle"
    /\ \E k \in keys, bodyOk \in BOOLEAN :
         \E pdf_request \in IF bodyOk THEN PdfRequests ELSE {"None"}, file \in BOOLEAN :
            req' = Request("parse_pdf", k, bodyOk, NullSchema, NoExamples, pdf_request, file)
    /\ pc' = "dispatch"
    /\ UNCHANGED <<model, formatted, call, resp, raised, log, files, tmp>>

(***************************************************************************)
(* The route calls its endpoint function, the wrapper for the protected    *)
(* routes, with the parameters its signature declares: a body that does    *)
(* not validate against them is answered 422 and the function not called.  *)
(***************************************************************************)
Dispatch ==
    /\ pc = "dispatch"
    /\ IF ~req.bodyOk
       THEN /\ resp' = HTTPException(422, "", "Unprocessable Entity")
            /\ log' = Append(log, "validate_body")
            /\ pc' = "done"
       ELSE /\ resp' = resp
            /\ log' = Append(log, "validate_body")
            /\ pc' = IF req.endpoint = "root" THEN "handler" ELSE "auth"
    /\ UNCHANGED <<req, model, formatted, call, raised, files, tmp>>

\* require_api_key's wrapper
RequireApiKey ==
    /\ pc = "auth"
    /\ IF ApiKeyStatus(req.apiKey) # 0
       THEN /\ resp' = HTTPException(ApiKeyStatus(req.apiKey), "", ApiKeyDetail(req.apiKey))
            /\ pc' = "done"
       ELSE /\ resp' = resp
            /\ pc' = "handler"
    /\ log' = Append(log, "require_api_key")
    /\ UNCHANGED <<req, model, formatted, call, raised, files, tmp>>

Root ==
    /\ pc = "handler"
    /\ req.endpoint = "root"
    /\ resp' = Response(200, "", "", "message")
    /\ pc' = "done"
    /\ log' = Append(log, "root")
    /\ UNCHANGED <<req, model, formatted, call, raised, files, tmp>>

HealthCheck ==
    /\ pc = "handler"
    /\ req.endpoint = "healthz"
    /\ resp' = Response(200, "", "", "status")
    /\ pc' = "done"
    /\ log' = Append(log, "health_check")
    /\ UNCHANGED <<req, model, formatted, call, raised, files, tmp>>

\* embed: the library's result is returned, its exception leaves the handler
\* and the server answers its own 500.
Embed ==
    /\ pc = "handler"
    /\ req.endpoint = "embed"
    /\ \E outcome \in {[ok |-> TRUE], Raise("Exception", "embedding failed")} :
         IF outcome.ok
         THEN /\ resp' = Response(200, "", "", "embedding")
              /\ raised' = raised
         ELSE /\ resp' = Response(500, "", "Internal Server Error", "")
              /\ raised' = Raised(outcome, "get_embedding", TRUE)
    /\ call' = [call EXCEPT !.count = @ + 1]
    /\ log' = Append(log, "get_embedding")
    /\ pc' = "done"
    /\ UNCHANGED <<req, model, formatted, files, tmp>>

(***************************************************************************)
(* create_chat_completion, the body of its try block in three steps; an    *)
(* exception in any of them is answered 500 with str(e).                   *)
(***************************************************************************)
\* A handler that makes a model with no fields when there is no schema.
CompileSchemaAlways(schema) ==
    IF SchemaTruthy(schema)
    THEN LET r == json_schema_to_pydantic_types(schema)
         IN  IF r.ok
             THEN [ok |-> TRUE, model |-> [isNone |-> FALSE, fields |-> r.fields]]
             ELSE r
    ELSE [ok |-> TRUE, model |-> [isNone |-> FALSE, fields |-> NoFields]]

\* if ai_request.response_schema: ... ResponseModel = create_model(...)
CompileSchema(schema) ==
    IF SchemaTruthy(schema)
    THEN LET r == json_schema_to_pydantic_types(schema)
         IN  IF r.ok
             THEN [ok |-> TRUE, model |-> [isNone |-> FALSE, fields |-> r.fields]]
             ELSE r
    ELSE [ok |-> TRUE, model |-> NoModel]

\* bool(ai_request.examples)
ExamplesTruthy(examples) == ~examples.isNone /\ examples.items # <<>>

\* The examples the list comprehension validates: all of them, or those up to
\* the first one model_validate rejects.
Attempted(mdl, items) ==
    LET bad == { i \in DOMAIN items : ~model_validate(mdl.fields, items[i]).ok }
    IN  IF bad = {} THEN Len(items)
        ELSE CHOOSE i \in bad : \A j \in bad : i <= j

\* The examples passed on as they came, none validated.
FormatExamplesUnvalidated(mdl, examples) ==
    IF ~ExamplesTruthy(examples) THEN [ok |-> TRUE, formatted |-> NoFormatted]
    ELSE [ok |-> TRUE, formatted |-> [isNone |-> FALSE, items |-> examples.items]]

\* if ai_request.examples: formatted_examples = [... model_validate(response) ...]
FormatExamples(mdl, examples) ==
    IF ~ExamplesTruthy(examples) THEN [ok |-> TRUE, formatted |-> NoFormatted]
    ELSE IF mdl.isNone
         THEN Raise("AttributeError", "'NoneType' object has no attribute 'model_validate'")
    ELSE LET n == Attempted(mdl, examples.items)
             last == model_validate(mdl.fields, examples.items[n])
         IN  IF ~last.ok THEN last
             ELSE [ok |-> TRUE,
                   formatted |-> [isNone |-> FALSE,
                       items |-> [i \in DOMAIN examples.items |->
                           model_validate(mdl.fields, examples.items[i]).instance]]]

RECURSIVE Repeat(_, _)
Repeat(x, n) == IF n = 0 THEN <<>> ELSE <<x>> \o Repeat(x, n - 1)

GenCompile ==
    /\ pc = "handler"
    /\ req.endpoint = "generate"
    /\ LET r == CompileSchema(req.schema)
       IN  IF r.ok
           THEN /\ model' = r.model
                /\ resp' = resp
                /\ raised' = raised
                /\ pc' = "gen_examples"
           ELSE /\ model' = model
                /\ resp' = HTTPException(500, "", r.msg)
                /\ raised' = Raised(r, "compile", FALSE)
                /\ pc' = "done"
    /\ log' = IF SchemaTruthy(req.schema) THEN Append(log, "compile") ELSE log
    /\ UNCHANGED <<req, formatted, call, files, tmp>>

GenExamples ==
    /\ pc = "gen_examples"
    /\ LET r == FormatExamples(model, req.examples)
       IN  IF r.ok
           THEN /\ formatted' = r.formatted
                /\ resp' = resp
                /\ raised' = raised
                /\ pc' = "gen_call"
           ELSE /\ formatted' = formatted
                /\ resp' = HTTPException(500, "", r.msg)
                /\ raised' = Raised(r, "examples", FALSE)
                /\ pc' = "done"
    /\ log' = IF ExamplesTruthy(req.examples) /\ ~model.isNone
              THEN log \o Repeat("model_validate", Attempted(model, req.examples.items))
              ELSE log
    /\ UNCHANGED <<req, model, call, files, tmp>>

\* result = await lumos.call_ai_async(...); return result.model_dump()
GenCall ==
    /\ pc = "gen_call"
    /\ call' = [count |-> call.count + 1, response_format |-> model, examples |-> formatted]
    /\ \E outcome \in {[ok |-> TRUE], Raise("Exception", "completion failed")} :
         IF outcome.ok
         THEN /\ resp' = Response(200, "", "", "completion")
              /\ raised' = raised
         ELSE /\ resp' = HTTPException(500, "", outcome.msg)
              /\ raised' = Raised(outcome, "call_ai_async", FALSE)
    /\ log' = Append(log, "call_ai_async")
    /\ pc' = "done"
    /\ UNCHANGED <<req, model, formatted, files, tmp>>

(***************************************************************************)
(* process_pdf: the guard, then the try block in three steps (the temp     *)
(* file is created, its content fetched, the parser run under finally).    *)
(***************************************************************************)
\* not pdf_request and not file
PdfSourceMissing(pdf_request, file) == pdf_request = "None" /\ ~file

\* The first except clause naming OSError, the base class of RequestException.
IsOSError(cls) ==
    cls \in {"RequestException", "ConnectionError", "HTTPError", "OSError"}

\* isinstance(e, requests.RequestException)
IsRequestException(cls) == cls \in {"RequestException", "ConnectionError", "HTTPError"}

\* except requests.RequestException ... except Exception ...
PdfErrorResponse(exc) ==
    IF IsRequestException(exc.cls)
    THEN HTTPException(400, "Failed to download PDF: ", exc.msg)
    ELSE HTTPException(500, "Failed to process PDF: ", exc.msg)

Success == [ok |-> TRUE, cls |-> "", msg |-> "", at |-> ""]

RaiseAt(cls, msg, at) == [ok |-> FALSE, cls |-> cls, msg |-> msg, at |-> at]

\* Which branch of "if pdf_request and pdf_request.url ... elif file" runs.
FetchBranch(pdf_request, file) ==
    IF pdf_request = "url" THEN "download"
    ELSE IF file THEN "upload"
    ELSE "none"

\* What the chosen branch, and the flush after it, can do.
FetchOutcomes(branch) ==
    {Success} \cup
    (IF branch = "download"
     THEN {RaiseAt("ConnectionError", "Connection refused", "requests.get"),
           RaiseAt("HTTPError", "404 Client Error: Not Found", "raise_for_status"),
           RaiseAt("OSError", "No space left on device", "tmp_file.write")}
     ELSE IF branch = "upload"
     THEN {RaiseAt("Exception", "upload could not be read", "file.read"),
           RaiseAt("OSError", "No space left on device", "tmp_file.write")}
     ELSE {RaiseAt("OSError", "No space left on device", "tmp_file.flush")})

\* from_pdf_path, flatten_sections, flatten_chunks
ParserOutcomes == {Success, RaiseAt("Exception", "not a PDF", "from_pdf_path")}

\* os.unlink(tmp_file.name)
UnlinkOutcomes == {Success, RaiseAt("OSError", "unlink failed", "os.unlink")}

FreeNames == (1..MaxFiles) \ files

PdfGuard ==
    /\ pc = "handler"
    /\ req.endpoint = "parse_pdf"
    /\ IF PdfSourceMissing(req.pdf_request, req.file)
       THEN /\ resp' = HTTPException(400, "", "Either a PDF URL or file upload must be provided")
            /\ pc' = "done"
       ELSE /\ resp' = resp
            /\ pc' = "pdf_acquire"
    /\ log' = Append(log, "process_pdf")
    /\ UNCHANGED <<req, model, formatted, call, raised, files, tmp>>

\* with tempfile.NamedTemporaryFile(delete=False, suffix=".pdf") as tmp_file
PdfAcquire ==
    /\ pc = "pdf_acquire"
    /\ \E created \in BOOLEAN :
         IF created /\ FreeNames # {}
         THEN /\ tmp' = CHOOSE n \in FreeNames : \A m \in FreeNames : n <= m
              /\ files' = files \cup {tmp'}
              /\ resp' = resp
              /\ raised' = raised
              /\ log' = Append(log, "NamedTemporaryFile")
              /\ pc' = "pdf_fetch"
         ELSE /\ tmp' = tmp
              /\ files' = files
              /\ resp' = PdfErrorResponse(Raise("OSError", "No usable temporary file name"))
              /\ raised' = Raised(Raise("OSError", "No usable temporary file name"),
                                  "NamedTemporaryFile", FALSE)
              /\ log' = Append(log, "NamedTemporaryFile_failed")
              /\ pc' = "done"
    /\ UNCHANGED <<req, model, formatted, call>>

\* The download or the upload's read, tmp_file.write and tmp_file.flush.  An
\* exception leaves the with block, which closes the file and keeps it.
PdfFetch ==
    /\ pc = "pdf_fetch"
    /\ LET branch == FetchBranch(req.pdf_request, req.file)
       IN  /\ \E outcome \in FetchOutcomes(branch) :
                IF outcome.ok
                THEN /\ resp' = resp
                     /\ raised' = raised
                     /\ log' = Append(log, branch)
                     /\ pc' = "pdf_parse"
                ELSE /\ resp' = PdfErrorResponse(outcome)
                     /\ raised' = Raised(outcome, outcome.at, FALSE)
                     /\ log' = log \o <<branch, "fetch_failed">>
                     /\ pc' = "done"
    /\ UNCHANGED <<req, model, formatted, call, files, tmp>>

\* try: from_pdf_path ... return {...}  finally: os.unlink(tmp_file.name)
PdfParse ==
    /\ pc = "pdf_parse"
    /\ \E parsed \in ParserOutcomes, unlinked \in UnlinkOutcomes :
         /\ files' = IF unlinked.ok THEN files \ {tmp} ELSE files
         /\ resp' = IF ~unlinked.ok THEN PdfErrorResponse(unlinked)
                    ELSE IF ~parsed.ok THEN PdfErrorResponse(parsed)
                    ELSE Response(200, "", "", "sections, chunks")
         /\ raised' = IF ~unlinked.ok THEN Raised(unlinked, unlinked.at, FALSE)
                      ELSE IF ~parsed.ok THEN Raised(parsed, parsed.at, FALSE)
                      ELSE raised
         /\ log' = log \o <<IF parsed.ok THEN "from_pdf_path" ELSE "from_pdf_path_failed",
                            IF unlinked.ok THEN "unlink" ELSE "unlink_failed">>
    /\ call' = [call EXCEPT !.count = @ + 1]
    /\ pc' = "done"
    /\ UNCHANGED <<req, model, formatted, tmp>>

\* The response is sent; the next request starts from fresh locals.
Reset ==
    /\ pc = "done"
    /\ pc' = "idle"
    /\ req' = NoRequest
    /\ model' = NoModel
    /\ formatted' = NoFormatted
    /\ call' = NoCall
    /\ resp' = NoResponse
    /\ raised' = NoException
    /\ log' = <<>>
    /\ tmp' = 0
    /\ UNCHANGED files

(***************************************************************************)
(* The server with all its routes.                                         *)
(***************************************************************************)
RouteSchemas == {NullSchema, EmptySchema} \cup DictSchemas({"string", "null"})

RoutePayloads == PayloadsOver({JsonValue("string", "x")})

Receive ==
    \/ ReceiveGenerate(ApiKeys, RouteSchemas, ExampleLists(RoutePayloads))
    \/ ReceiveEmbed(ApiKeys)
    \/ ReceivePlain(ApiKeys)
    \/ ReceivePdf(ApiKeys)

Next ==
    \/ Receive
    \/ Dispatch
    \/ RequireApiKey
    \/ Root
    \/ HealthCheck
    \/ Embed
    \/ GenCompile
    \/ GenExamples
    \/ GenCall
    \/ PdfGuard
    \/ PdfAcquire
    \/ PdfFetch
    \/ PdfParse
    \/ Reset

Spec == Init /\ [][Next]_vars

(***************************************************************************)
(* The completion route alone, over schemas with supported, unsupported    *)
(* and missing types and examples that do and do not validate.             *)
(***************************************************************************)
GenerateKeys == {Header(<<"x">>), Header(SECRET)}

GenerateSchemas ==
    {NullSchema, EmptySchema} \cup DictSchemas({"string", "integer", "null", NoType})

GeneratePayloads == PayloadsOver({JsonValue("string", "5"), JsonValue("integer", "5")})

NextGenerate ==
    \/ ReceiveGenerate(GenerateKeys, GenerateSchemas, ExampleLists(GeneratePayloads))
    \/ Dispatch
    \/ RequireApiKey
    \/ GenCompile
    \/ GenExamples
    \/ GenCall
    \/ Reset

SpecGenerate == Init /\ [][NextGenerate]_vars

(***************************************************************************)
(* The compiler and the validation of one example, over every schema of    *)
(* the bounds and every payload.                                           *)
(***************************************************************************)
NextCompile ==
    \/ ReceiveGenerate({Header(SECRET)}, DictSchemas(TypeNames),
                       { Examples(<<p>>) : p \in AllPayloads })
    \/ Dispatch
    \/ RequireApiKey
    \/ GenCompile
    \/ GenExamples
    \/ GenCall
    \/ Reset

SpecCompile == Init /\ [][NextCompile]_vars

(***************************************************************************)
(* The PDF route alone.                                                    *)
(***************************************************************************)
NextPdf ==
    \/ ReceivePdf(ApiKeys)
    \/ Dispatch
    \/ RequireApiKey
    \/ PdfGuard
    \/ PdfAcquire
    \/ PdfFetch
    \/ PdfParse
    \/ Reset

SpecPdf == Init /\ [][NextPdf]_vars

(***************************************************************************)
(* Properties.                                                             *)
(***************************************************************************)
Events == { log[i] : i \in DOMAIN log }

Protected == {"generate", "embed", "healthz", "parse_pdf"}

\* The header is missing, empty, whitespace-only or not the secret.
KeyRejected(h) == ~h.present \/ Strip(h.value) = <<>> \/ h.value # SECRET

\* The wrapped handler's body has been entered for the current request.
HandlerEntered ==
    /\ pc \notin {"idle", "dispatch", "auth"}
    /\ req.bodyOk
    /\ ~KeyRejected(req.apiKey)

HandlerEvents ==
    {"health_check", "get_embedding", "compile", "model_validate", "call_ai_async",
     "process_pdf", "NamedTemporaryFile", "from_pdf_path"}

\* C1: on a protected endpoint a request whose X-API-Key is missing, empty,
\* whitespace-only or wrong is answered 401 and nothing else has happened before
\* that: no other status (400/422/500) is produced, the handler body has not
\* run, no library was called and no temp file created.
C1_UnauthorizedBeforeAnythingElse ==
    (pc # "idle" /\ req.endpoint \in Protected /\ KeyRejected(req.apiKey)) =>
        /\ resp.status \in {0, 401}
        /\ pc = "done" => resp.status = 401
        /\ Events \cap HandlerEvents = {}
        /\ call.count = 0
        /\ tmp = 0

\* C2: in the PDF endpoint a temp file that was created is deleted on every exit
\* path of the request (success, parser exception, download or upload-read
\* exception): no terminated request leaves its temp file in existence.  A
\* request whose os.unlink itself failed is left out.
C2_TempFileDeletedOnEveryExit ==
    (pc = "done" /\ tmp # 0 /\ "unlink_failed" \notin Events) => tmp \notin files

\* Neither a URL nor an uploaded file.
NoUsableSource == req.pdf_request # "url" /\ ~req.file

\* C3: an authenticated PDF-parse request with no usable source (no body and no
\* file, or a body whose url is null and no file) is answered 400 and the parser
\* is never invoked for it.  Requests stopped by a failing temp file are left out.
C3_NoSourceIsBadRequest ==
    (req.endpoint = "parse_pdf" /\ HandlerEntered /\ NoUsableSource
        /\ Events \cap {"NamedTemporaryFile_failed", "fetch_failed"} = {}) =>
        /\ Events \cap {"from_pdf_path", "from_pdf_path_failed"} = {}
        /\ pc = "done" => resp.status = 400

\* C9: on every authenticated endpoint a failure of the library or of internal
\* processing is caught in the handler and converted to a status and a message
\* carrying the exception's message; no exception escapes unconverted, the
\* library is called at most once, a failed request returns no partial result.
C9_FailuresConvertedInHandler ==
    /\ ~raised.escaped
    /\ call.count <= 1
    /\ (pc = "done" /\ raised.cls # "") =>
          /\ resp.status \in {400, 500}
          /\ resp.msg = raised.msg
          /\ resp.body = ""

\* C4: in the PDF endpoint a failure is answered 400 "Failed to download PDF"
\* exactly when it is a failure of the URL download (requests.get or
\* raise_for_status); every other failure (reading the upload, writing the temp
\* file, the parser, deleting the temp file) is answered 500; both carry the
\* exception's message.
C4_ClientErrorIffDownloadFailure ==
    (req.endpoint = "parse_pdf" /\ pc = "done" /\ raised.cls # "") =>
        /\ (resp.status = 400 /\ resp.prefix = "Failed to download PDF: ")
              <=> raised.at \in {"requests.get", "raise_for_status"}
        /\ raised.at \notin {"requests.get", "raise_for_status"} =>
              (resp.status = 500 /\ resp.prefix = "Failed to process PDF: ")
        /\ resp.msg = raised.msg
        /\ resp.body = ""

C4_Witness ==
    /\ pc = "done"
    /\ req.endpoint = "parse_pdf"
    /\ raised.at = "raise_for_status"
    /\ resp.status = 400
    /\ resp.msg = "404 Client Error: Not Found"

(***************************************************************************)
(* The completion route.                                                   *)
(***************************************************************************)
HasBadType(schema) ==
    \E i \in DOMAIN schema.properties : schema.properties[i].type \notin TableTypes

PropNames(schema) == { schema.properties[i].name : i \in DOMAIN schema.properties }

\* C5: a schema with a property whose type is missing or not string, integer,
\* number, boolean, array or object fails compilation as a whole: no model of
\* the properties before the offending one is kept, the property is not
\* skipped, and the completion library is not called for the request.
C5_UnsupportedTypeAbortsCompilation ==
    (req.endpoint = "generate" /\ HasBadType(req.schema) /\ "compile" \in Events) =>
        /\ pc = "done"
        /\ model.isNone
        /\ raised.at = "compile" /\ raised.cls = "KeyError"
        /\ resp.status = 500
        /\ call.count = 0
        /\ "call_ai_async" \notin Events

C5_Witness ==
    /\ pc = "done"
    /\ req.endpoint = "generate"
    /\ Len(req.schema.properties) = 2
    /\ req.schema.properties[1].type = "string"
    /\ req.schema.properties[2].type = NoType
    /\ resp.status = 500
    /\ resp.msg = "type"

\* The table of the specification: string, integer, float, boolean, sequence,
\* mapping, by the names of the Python types.
KindOf(t) ==
    CASE t = "string" -> "str"
      [] t = "integer" -> "int"
      [] t = "number" -> "float"
      [] t = "boolean" -> "bool"
      [] t = "array" -> "list"
      [] t = "object" -> "dict"

\* C6: for a schema whose property types are all in the table the compiled
\* model has exactly one field per entry of properties, of the table's kind for
\* its type, required exactly when its name is in the required list and else
\* optional; names of required that are no property add no field.
C6_OneFieldPerProperty ==
    (req.endpoint = "generate" /\ SchemaTruthy(req.schema) /\ ~HasBadType(req.schema)
        /\ "compile" \in Events) =>
        /\ ~model.isNone
        /\ DOMAIN model.fields = PropNames(req.schema)
        /\ \A i \in DOMAIN req.schema.properties :
              LET p == req.schema.properties[i]
              IN  /\ model.fields[p.name].type = KindOf(p.type)
                  /\ model.fields[p.name].required <=> p.name \in req.schema.required

C6_Witness ==
    /\ req.endpoint = "generate"
    /\ ~model.isNone
    /\ req.schema.properties = <<Prop("a", "number")>>
    /\ req.schema.required = {"a", "b"}
    /\ DOMAIN model.fields = {"a"}
    /\ model.fields["a"] = [type |-> "float", required |-> TRUE]

\* The structural shape a kind asks for.
ShapeMatches(type, v) ==
    CASE type = "str" -> v.shape = "string"
      [] type = "int" -> v.shape = "integer"
      [] type = "float" -> v.shape \in {"number", "integer"}
      [] type = "bool" -> v.shape = "boolean"
      [] type = "list" -> v.shape = "array"
      [] type = "dict" -> v.shape = "object"

\* What a kind accepts: its shape, and the values converted to it (a numeric
\* string or a boolean to integer or float, 0, 1, "true", "false" to boolean).
LaxAccepts(type, v) ==
    \/ ShapeMatches(type, v)
    \/ type \in {"int", "float"} /\ v.shape = "boolean"
    \/ type = "int" /\ v.shape = "string" /\ v.lit \in {"0", "1", "5"}
    \/ type = "float" /\ v.shape = "string" /\ v.lit \in {"0", "1", "5", "1.5"}
    \/ type = "bool" /\ v.shape \in {"integer", "string"}
          /\ v.lit \in {"0", "1", "true", "false"}

MissingRequired(fields, payload) ==
    \E n \in DOMAIN fields : fields[n].required /\ n \notin DOMAIN payload

ShapeInvalid(fields, payload) ==
    \/ MissingRequired(fields, payload)
    \/ \E n \in (DOMAIN fields) \cap (DOMAIN payload) : ~ShapeMatches(fields[n].type, payload[n])

LaxInvalid(fields, payload) ==
    \/ MissingRequired(fields, payload)
    \/ \E n \in (DOMAIN fields) \cap (DOMAIN payload) : ~LaxAccepts(fields[n].type, payload[n])

ExamplesGiven ==
    req.endpoint = "generate" /\ ~model.isNone /\ ExamplesTruthy(req.examples)

Count(e) == Cardinality({ i \in DOMAIN log : log[i] = e })

\* C7 as stated: with a schema and examples, an example that misses a required
\* field or holds a value of the wrong kind fails the request and the
\* completion library is never called.
C7_ExampleOfWrongKindFails ==
    (ExamplesGiven /\ \E i \in DOMAIN req.examples.items :
                         ShapeInvalid(model.fields, req.examples.items[i])) =>
        /\ call.count = 0
        /\ pc = "done" => resp.status = 500

\* C7, amended: with a schema and examples, every example is validated against
\* the compiled model before the completion library is called; an example that
\* misses a required field or holds a value its kind does not accept, not even
\* by conversion, fails the request and the library is never called; the call
\* is made only after all examples have validated.
C7_ExamplesValidatedBeforeCall ==
    /\ (ExamplesGiven /\ \E i \in DOMAIN req.examples.items :
                            LaxInvalid(model.fields, req.examples.items[i])) =>
          /\ call.count = 0
          /\ pc \in {"gen_examples", "done"}
          /\ pc = "done" => (resp.status = 500 /\ raised.at = "examples")
    /\ (ExamplesGiven /\ call.count > 0) =>
          /\ \A i \in DOMAIN req.examples.items :
                ~LaxInvalid(model.fields, req.examples.items[i])
          /\ Count("model_validate") = Len(req.examples.items)
          /\ \A i, j \in DOMAIN log :
                (log[i] = "model_validate" /\ log[j] = "call_ai_async") => i < j
          /\ Len(call.examples.items) = Len(req.examples.items)

C7_Witness ==
    /\ pc = "done"
    /\ ExamplesGiven
    /\ Len(req.examples.items) = 2
    /\ ~LaxInvalid(model.fields, req.examples.items[1])
    /\ LaxInvalid(model.fields, req.examples.items[2])
    /\ resp.status = 500
    /\ call.count = 0
    /\ Count("model_validate") = 2

OneExampleChecked ==
    /\ req.endpoint = "generate"
    /\ "model_validate" \in Events
    /\ Len(req.examples.items) = 1

ExampleRejected == raised.at = "examples" /\ raised.cls = "ValidationError"

\* C8 as stated: a payload is invalid against a compiled model exactly when a
\* required field is absent or a present field's value does not have its kind's
\* structural shape.
C8_InvalidIffShapeMismatch ==
    OneExampleChecked =>
        (ExampleRejected <=> ShapeInvalid(model.fields, req.examples.items[1]))

\* C8, amended: a payload is invalid against a compiled model exactly when a
\* required field is absent or a present field's value is not accepted by its
\* kind, where a kind accepts its shape and what converts to it; for a:string,
\* b:integer, required [a], {a:"x"} is valid with b null and {b:5} is invalid.
C8_InvalidIffNotAccepted ==
    OneExampleChecked =>
        LET payload == req.examples.items[1]
        IN  /\ ExampleRejected <=> LaxInvalid(model.fields, payload)
            /\ ~ExampleRejected =>
                  /\ ~formatted.isNone
                  /\ \A n \in DOMAIN model.fields :
                        n \notin DOMAIN payload =>
                            formatted.items[1][n] = JsonValue("null", "null")
            /\ (req.schema.properties = <<Prop("a", "string"), Prop("b", "integer")>>
                  /\ req.schema.required = {"a"}) =>
                  /\ payload = [n \in {"a"} |-> JsonValue("string", "x")] => ~ExampleRejected
                  /\ payload = [n \in {"b"} |-> JsonValue("integer", "5")] => ExampleRejected

C8_Witness ==
    /\ OneExampleChecked
    /\ req.schema.properties = <<Prop("a", "string"), Prop("b", "integer")>>
    /\ req.schema.required = {"a"}
    /\ req.examples.items[1] =
          [n \in {"a", "b"} |-> IF n = "a" THEN JsonValue("string", "x")
                                ELSE JsonValue("string", "5")]
    /\ ~ExampleRejected
    /\ formatted.items[1]["b"] = JsonValue("integer", "5")

\* C10: examples can only be used with a schema: an authenticated request with
\* a non-empty examples list and no usable schema (null or {}) ends in 500 and
\* the completion library is never called for it; a request with a schema and
\* no examples calls the library with the compiled model and no examples.
C10_ExamplesNeedSchema ==
    /\ (req.endpoint = "generate" /\ ExamplesTruthy(req.examples)
          /\ ~SchemaTruthy(req.schema)) =>
          /\ call.count = 0
          /\ (pc = "done" /\ HandlerEntered) =>
                (resp.status = 500 /\ raised.cls = "AttributeError")
    /\ (req.endpoint = "generate" /\ ~ExamplesTruthy(req.examples)
          /\ SchemaTruthy(req.schema) /\ ~HasBadType(req.schema)
          /\ pc = "done" /\ HandlerEntered) =>
          /\ call.count = 1
          /\ call.response_format =
                [isNone |-> FALSE,
                 fields |-> json_schema_to_pydantic_types(req.schema).fields]
          /\ DOMAIN call.response_format.fields = PropNames(req.schema)
          /\ call.examples.isNone

C10_Witness ==
    /\ pc = "done"
    /\ req.endpoint = "generate"
    /\ req.schema = EmptySchema
    /\ Len(req.examples.items) = 1
    /\ resp.status = 500
    /\ raised.at = "examples"
    /\ call.count = 0

====
